---- MODULE Spec2Model ----
(***************************************************************************)
(* A model of import-visualizer (src/src/vis.py): module discovery, the    *)
(* bytecode decoder and import scanner, the per-module dependency          *)
(* resolver, and the assembly of the dependency graph.                     *)
(*                                                                         *)
(* Strings are sequences of tokens: a token is a substring that the code   *)
(* never splits ("os", "__init__", ".py") or a one-character separator     *)
(* ("." and "/").  Concatenation, slicing, split and replace are computed  *)
(* on those sequences.  Python's None and [] are written out as tagged     *)
(* values, see NoneC and EmptyList.                                        *)
(*                                                                         *)
(* main() is followed in whole-tree mode (the path is a directory).  The   *)
(* entry-point mode hands discovery to modulefinder and is not modelled.   *)
(* Four specifications share the operators: Spec (a whole run),            *)
(* SpecResolve (one call of get_fq_immediate_deps, event by event),        *)
(* SpecScan (decoder and scanner on hand-assembled code, in both           *)
(* encodings) and SpecDiscover (get_modules_in_dir alone).                 *)
(***************************************************************************)
EXTENDS Integers, Sequences, FiniteSets, Bags, TLC

VARIABLES
    PY_VERSION,     \* sys.version_info[0]
    root_dir,       \* the absolute root directory, a string
    root_exists,    \* whether root_dir is a directory
    tree,           \* the files under root_dir: a set of relative paths
    walk_left,      \* directories os.walk has not yielded yet
    mod_dict,       \* name -> Module (file, path, direct_imports)
    pc,             \* position of the run
    todo,           \* sorted(mod_dict) names still to resolve, in order
    compiled,       \* the code object being scanned
    di,             \* _unpack_opargs: byte index i
    extended_arg,   \* _unpack_opargs: extended_arg
    triples,        \* what _unpack_opargs has yielded
    opargs,         \* scan_opcodes: opargs
    si,             \* scan_opcodes: number of opargs entries consumed
    events,         \* what scan_opcodes has yielded, each with its index
    fq_deps,        \* get_fq_immediate_deps: fq_deps
    printed,        \* the lines printed by main
    dag,            \* the graphviz.Digraph: nodes and edges
    vendor_mods,    \* mod_dict_to_dag: vendor_mods
    dag_left        \* modules mod_dict_to_dag has not visited yet

vars == <<PY_VERSION, root_dir, root_exists, tree, walk_left, mod_dict, pc,
          todo, compiled, di, extended_arg, triples, opargs, si, events,
          fq_deps, printed, dag, vendor_mods, dag_left>>

(***************************************************************************)
(* Opcodes (dis.opmap) and the event tags.                                 *)
(***************************************************************************)
POP_TOP == 1
RETURN_VALUE == 83
STORE_NAME == 90
STORE_GLOBAL == 97
LOAD_CONST == 100
IMPORT_NAME == 108
IMPORT_FROM == 109
HAVE_ARGUMENT == 90
STORE_OPS == {STORE_NAME, STORE_GLOBAL}
\* dis.EXTENDED_ARG is 144 on Python 3 and 145 on Python 2
EXTENDED_ARG == IF PY_VERSION = 3 THEN 144 ELSE 145

STORE == "store"
ABS_IMPORT == "absolute_import"
REL_IMPORT == "relative_import"

(***************************************************************************)
(* Python values held in co_consts.                                        *)
(***************************************************************************)
NoneC == [t |-> "none"]
IntC(n) == [t |-> "int", v |-> n]
TupleC(s) == [t |-> "tuple", v |-> s]
\* the empty list appended by fq_deps[...].append([])
EmptyList == <<>>

\* `value or []` for a constant: a falsy value gives [], a tuple its items
OrEmptyList(c) ==
    IF c.t = "none" THEN <<>>
    ELSE IF c.t = "tuple" THEN c.v
    ELSE IF c.v = 0 THEN <<>> ELSE c

(***************************************************************************)
(* Integer helpers: a | b on naturals.                                     *)
(***************************************************************************)
RECURSIVE BitOr(_, _)
BitOr(a, b) ==
    IF a = 0 THEN b
    ELSE IF b = 0 THEN a
    ELSE (IF a % 2 = 1 \/ b % 2 = 1 THEN 1 ELSE 0) + 2 * BitOr(a \div 2, b \div 2)

(***************************************************************************)
(* _unpack_opargs: one iteration of the loop of the running version.  The  *)
(* code bytes are code[1..n]; the Python index i is 0-based.  An argument  *)
(* is <<>> for None and <<n>> for the integer n.                           *)
(***************************************************************************)
UnpackNextPy3(code, i, ext) ==
    LET op == code[i + 1] IN
    IF op >= HAVE_ARGUMENT
    THEN LET next_code == code[i + 2]
             arg == BitOr(next_code, ext)
         IN  [triple |-> <<i, op, <<arg>>>>,
              i |-> i + 2,
              extended_arg |-> IF op = EXTENDED_ARG THEN arg * 256 ELSE 0]
    ELSE [triple |-> <<i, op, <<>>>>, i |-> i + 2, extended_arg |-> ext]

UnpackNextPy2(code, i, ext) ==
    LET op == code[i + 1] IN
    IF op >= HAVE_ARGUMENT
    THEN [triple |-> <<i + 3, op, <<code[i + 2]>>>>,
          i |-> i + 3, extended_arg |-> ext]
    ELSE [triple |-> <<i + 1, op, <<>>>>, i |-> i + 1, extended_arg |-> ext]

UnpackNext(code, i, ext) ==
    IF PY_VERSION = 3 THEN UnpackNextPy3(code, i, ext)
    ELSE UnpackNextPy2(code, i, ext)

RECURSIVE UnpackFrom(_, _, _)
UnpackFrom(code, i, ext) ==
    IF i >= Len(code) THEN <<>>
    ELSE LET r == UnpackNext(code, i, ext)
         IN  <<r.triple>> \o UnpackFrom(code, r.i, r.extended_arg)

_unpack_opargs(code) == UnpackFrom(code, 0, 0)

(***************************************************************************)
(* scan_opcodes.                                                           *)
(***************************************************************************)
\* [(op, arg) for _, op, arg in _unpack_opargs(code) if op != EXTENDED_ARG]
RECURSIVE FilterExtended(_)
FilterExtended(ts) ==
    IF ts = <<>> THEN <<>>
    ELSE (IF Head(ts)[2] # EXTENDED_ARG
          THEN <<<<Head(ts)[2], Head(ts)[3]>>>> ELSE <<>>)
         \o FilterExtended(Tail(ts))

\* a slip in the level test: the sentinel -1 is not taken as absolute
ScanAtZeroOnly(co, ops, k) ==
    LET op == ops[k][1]
        oparg == ops[k][2]
    IN  IF op \in STORE_OPS
        THEN <<[op |-> STORE, args |-> <<co.co_names[oparg[1]]>>]>>
        ELSE IF op = IMPORT_NAME /\ k - 1 >= 2
                /\ ops[k - 1][1] = LOAD_CONST /\ ops[k - 2][1] = LOAD_CONST
        THEN LET level == co.co_consts[ops[k - 2][2][1]]
                 fromlist == OrEmptyList(co.co_consts[ops[k - 1][2][1]])
             IN  IF level = IntC(0)
                 THEN <<[op |-> ABS_IMPORT,
                         args |-> <<fromlist, co.co_names[oparg[1]]>>]>>
                 ELSE <<[op |-> REL_IMPORT,
                         args |-> <<level, fromlist, co.co_names[oparg[1]]>>]>>
        ELSE <<>>

\* The events one iteration of the scanning loop yields for entry k
\* (1-based; Python's i is k - 1): none or one.
ScanAt(co, ops, k) ==
    LET op == ops[k][1]
        oparg == ops[k][2]
    IN  IF op \in STORE_OPS
        THEN <<[op |-> STORE, args |-> <<co.co_names[oparg[1]]>>]>>
        ELSE IF op = IMPORT_NAME /\ k - 1 >= 2
                /\ ops[k - 1][1] = LOAD_CONST /\ ops[k - 2][1] = LOAD_CONST
        THEN LET level == co.co_consts[ops[k - 2][2][1]]
                 fromlist == OrEmptyList(co.co_consts[ops[k - 1][2][1]])
             IN  IF level = IntC(0) \/ level = IntC(-1)
                 THEN <<[op |-> ABS_IMPORT,
                         args |-> <<fromlist, co.co_names[oparg[1]]>>]>>
                 ELSE <<[op |-> REL_IMPORT,
                         args |-> <<level, fromlist, co.co_names[oparg[1]]>>]>>
        ELSE <<>>

RECURSIVE ScanFrom(_, _, _)
ScanFrom(co, ops, k) ==
    IF k > Len(ops) THEN <<>>
    ELSE ScanAt(co, ops, k) \o ScanFrom(co, ops, k + 1)

scan_opcodes(co) == ScanFrom(co, FilterExtended(_unpack_opargs(co.co_code)), 1)

(***************************************************************************)
(* compile(): the code object of a module's source.  A source is a         *)
(* sequence of statements:                                                 *)
(*   [kind |-> "import", target |-> T]            import T                 *)
(*   [kind |-> "from", level |-> 0, target |-> T, names |-> ns]            *)
(*                                                from T import n1, n2     *)
(*   [kind |-> "from", level |-> k, ...], k > 0   from .T import n1, n2    *)
(*   [kind |-> "assign", name |-> x]              x = 1                    *)
(* The instruction sequence is the one CPython emits for each statement;   *)
(* an absolute import has level 0 on Python 3 and -1 on Python 2.          *)
(***************************************************************************)
\* top.split('.')[0]
RECURSIVE SplitHead(_)
SplitHead(s) ==
    IF s = <<>> \/ Head(s) = "." THEN <<>>
    ELSE <<Head(s)>> \o SplitHead(Tail(s))

AbsLevel == IF PY_VERSION = 3 THEN IntC(0) ELSE IntC(-1)

LoadConst(c) == [op |-> LOAD_CONST, k |-> "const", val |-> c]
NameOp(o, n) == [op |-> o, k |-> "name", val |-> n]
PlainOp(o) == [op |-> o, k |-> "none"]

RECURSIVE ImportFromStores(_)
ImportFromStores(names) ==
    IF names = <<>> THEN <<>>
    ELSE <<NameOp(IMPORT_FROM, Head(names)), NameOp(STORE_NAME, Head(names))>>
         \o ImportFromStores(Tail(names))

StmtInstrs(st) ==
    IF st.kind = "import"
    THEN <<LoadConst(AbsLevel), LoadConst(NoneC), NameOp(IMPORT_NAME, st.target),
           NameOp(STORE_NAME, SplitHead(st.target))>>
    ELSE IF st.kind = "from"
    THEN <<LoadConst(IF st.level = 0 THEN AbsLevel ELSE IntC(st.level)),
           LoadConst(TupleC(st.names)), NameOp(IMPORT_NAME, st.target)>>
         \o ImportFromStores(st.names) \o <<PlainOp(POP_TOP)>>
    ELSE <<LoadConst(IntC(1)), NameOp(STORE_NAME, st.name)>>

RECURSIVE SourceInstrs(_)
SourceInstrs(src) ==
    IF src = <<>> THEN <<LoadConst(NoneC), PlainOp(RETURN_VALUE)>>
    ELSE StmtInstrs(Head(src)) \o SourceInstrs(Tail(src))

\* the values of kind k used by the instructions, each once, in order of use
RECURSIVE TableOf(_, _, _)
TableOf(ins, k, acc) ==
    IF ins = <<>> THEN acc
    ELSE LET h == Head(ins)
             new == h.k = k /\ ~(\E j \in 1..Len(acc) : acc[j] = h.val)
         IN  TableOf(Tail(ins), k, IF new THEN Append(acc, h.val) ELSE acc)

IndexOf(tab, v) == (CHOOSE j \in 1..Len(tab) : tab[j] = v) - 1

\* the bytes of one instruction in the encoding of the running version
EncodeInstr(op, arg) ==
    IF PY_VERSION = 3
    THEN IF op < HAVE_ARGUMENT THEN <<op, 0>>
         ELSE IF arg < 256 THEN <<op, arg>>
         ELSE <<EXTENDED_ARG, arg \div 256, op, arg % 256>>
    ELSE IF op < HAVE_ARGUMENT THEN <<op>>
         ELSE <<op, arg % 256, arg \div 256>>

RECURSIVE EncodeAll(_, _, _)
EncodeAll(ins, consts, names) ==
    IF ins = <<>> THEN <<>>
    ELSE LET h == Head(ins)
             arg == IF h.k = "const" THEN IndexOf(consts, h.val)
                    ELSE IF h.k = "name" THEN IndexOf(names, h.val) ELSE 0
         IN  EncodeInstr(h.op, arg) \o EncodeAll(Tail(ins), consts, names)

\* a tuple as Python indexes it: from 0
ZeroBased(s) == [j \in 0..(Len(s) - 1) |-> s[j + 1]]

Compile(src) ==
    LET ins == SourceInstrs(src)
        consts == TableOf(ins, "const", <<>>)
        names == TableOf(ins, "name", <<>>)
    IN  [co_code |-> EncodeAll(ins, consts, names),
         co_names |-> ZeroBased(names),
         co_consts |-> ZeroBased(consts)]

(***************************************************************************)
(* libinfo.is_std_lib_module: the standard-library oracle.                 *)
(***************************************************************************)
StdLibNames == {<<"os">>, <<"sys">>}

is_std_lib_module(name, version) == name \in StdLibNames

(***************************************************************************)
(* get_fq_immediate_deps.  fq_deps is a defaultdict(list): a function from *)
(* the keys present to their lists.  A member is a name or EmptyList.      *)
(***************************************************************************)
\* d[k].append(x) on a defaultdict(list)
DictAppend(d, k, x) ==
    IF k \in DOMAIN d THEN [d EXCEPT ![k] = Append(@, x)]
    ELSE d @@ (k :> <<x>>)

\* a slip that makes the lookup depend on the resolutions done so far: a
\* module counts only once its own imports have been recorded
InAllModsResolved(all_mods, name) ==
    name \in DOMAIN all_mods /\ DOMAIN all_mods[name].direct_imports # {}

\* the test `fq_name in all_mods`
InAllMods(all_mods, name) == name \in DOMAIN all_mods

\* a slip in the loop body: the bare name is looked up, not top.name
AddNameBareLookup(all_mods, deps, top, name) ==
    IF InAllMods(all_mods, name)
    THEN DictAppend(deps, top \o <<".">> \o name, EmptyList)
    ELSE DictAppend(deps, top, name)

\* the body of `for name in names`
AddName(all_mods, deps, top, name) ==
    LET fq_name == top \o <<".">> \o name
    IN  IF InAllMods(all_mods, fq_name)
        THEN DictAppend(deps, fq_name, EmptyList)
        ELSE DictAppend(deps, top, name)

\* for name in names: ...
RECURSIVE AddNames(_, _, _, _)
AddNames(all_mods, deps, top, names) ==
    IF names = <<>> THEN deps
    ELSE AddNames(all_mods, AddName(all_mods, deps, top, Head(names)),
                  top, Tail(names))

\* a slip in the guard: the whole dotted name is classified, not its top
KeepsImportWholeName(all_mods, top) ==
    ~is_std_lib_module(top, PY_VERSION) \/ InAllMods(all_mods, top)

\* the guard of the ABS_IMPORT branch
KeepsImport(all_mods, top) ==
    ~is_std_lib_module(SplitHead(top), PY_VERSION) \/ InAllMods(all_mods, top)

\* a slip in the loop body: the `if not names` branch is missing
OnEventNamesOnly(all_mods, deps, ev) ==
    IF ev.op = ABS_IMPORT /\ KeepsImport(all_mods, ev.args[2])
    THEN AddNames(all_mods, deps, ev.args[2], ev.args[1])
    ELSE deps

\* the body of the loop over scan_opcodes(compiled) for one event
OnEvent(all_mods, deps, ev) ==
    IF ev.op = ABS_IMPORT
    THEN LET names == ev.args[1]
             top == ev.args[2]
         IN  IF KeepsImport(all_mods, top)
             THEN AddNames(all_mods,
                           IF names = <<>> THEN DictAppend(deps, top, EmptyList)
                           ELSE deps,
                           top, names)
             ELSE deps
    ELSE deps

RECURSIVE FoldEvents(_, _, _)
FoldEvents(all_mods, deps, evs) ==
    IF evs = <<>> THEN deps
    ELSE FoldEvents(all_mods, OnEvent(all_mods, deps, Head(evs)), Tail(evs))

EmptyDict == <<>>

\* the result for a module whose source compiles to co
get_fq_immediate_deps(all_mods, co) ==
    FoldEvents(all_mods, EmptyDict, scan_opcodes(co))


(***************************************************************************)
(* String helpers.                                                         *)
(***************************************************************************)
\* sep.join(parts)
RECURSIVE Join(_, _)
Join(sep, parts) ==
    IF parts = <<>> THEN <<>>
    ELSE IF Len(parts) = 1 THEN parts[1]
    ELSE parts[1] \o <<sep>> \o Join(sep, Tail(parts))

\* s.replace(old, new) for a one-character old
RECURSIVE ReplaceChar(_, _, _)
ReplaceChar(s, old, new) ==
    IF s = <<>> THEN <<>>
    ELSE <<IF Head(s) = old THEN new ELSE Head(s)>> \o ReplaceChar(Tail(s), old, new)

\* s.replace('.__init__', '')
RECURSIVE RemoveDotInit(_)
RemoveDotInit(s) ==
    IF Len(s) < 2 THEN s
    ELSE IF s[1] = "." /\ s[2] = "__init__" THEN RemoveDotInit(Tail(Tail(s)))
    ELSE <<Head(s)>> \o RemoveDotInit(Tail(s))

\* sub in s, for a one-token sub
Contains(s, sub) == \E j \in 1..Len(s) : s[j] = sub

\* the tokens in the order of Python's string comparison
TokenOrder == <<".", "/", "README", "__init__", "a", "b", "m", "main", "os",
                "path", "pkg", "proj", "v", "venv", "x">>
TokenRank(t) == CHOOSE j \in 1..Len(TokenOrder) : TokenOrder[j] = t

\* a < b on strings
RECURSIVE StrLess(_, _)
StrLess(a, b) ==
    IF b = <<>> THEN FALSE
    ELSE IF a = <<>> THEN TRUE
    ELSE IF Head(a) = Head(b) THEN StrLess(Tail(a), Tail(b))
    ELSE TokenRank(Head(a)) < TokenRank(Head(b))

\* sorted(names)
RECURSIVE Sorted(_)
Sorted(S) ==
    IF S = {} THEN <<>>
    ELSE LET least == CHOOSE x \in S : \A y \in S \ {x} : StrLess(x, y)
         IN  <<least>> \o Sorted(S \ {least})

\* the orders in which a set can be listed
Orders(S) ==
    {s \in [1..Cardinality(S) -> S] : \A j, k \in 1..Cardinality(S) : j # k => s[j] # s[k]}

(***************************************************************************)
(* get_modules_in_dir.  A file is its path relative to the root, a         *)
(* sequence of components; a directory likewise (<<>> is the root).        *)
(***************************************************************************)
DirOf(f) == SubSeq(f, 1, Len(f) - 1)
BaseOf(f) == f[Len(f)]

\* the directories os.walk finds under a directory
SubDirs(t, d) ==
    {SubSeq(f, 1, Len(d) + 1) : f \in {g \in t : Len(g) > Len(d) + 1 /\ SubSeq(g, 1, Len(d)) = d}}

FilesIn(t, d) == {f \in t : DirOf(f) = d}

\* os.path.join(root, *d)
TopOf(root, d) == IF d = <<>> THEN root ELSE root \o <<"/">> \o Join("/", d)

Module(mod_name, mod_file, mod_path) ==
    [name |-> mod_name, file |-> mod_file, path |-> mod_path,
     direct_imports |-> EmptyDict]

\* mod_file[len(root_dir) + 1:].replace('/', '.')[:-3], then the __init__ rule
ModName(root, mod_file) ==
    LET rel == SubSeq(mod_file, Len(root) + 2, Len(mod_file))
        dotted == ReplaceChar(rel, "/", ".")
        mod_name == SubSeq(dotted, 1, Len(dotted) - 1)
    IN  IF Contains(mod_name, "__init__") THEN RemoveDotInit(mod_name)
        ELSE mod_name

\* ignore_venv and ('venv' in top or 'virt' in top)
SkipsTop(top) == Contains(top, "venv") \/ Contains(top, "virt")

\* for nm in files: ..., for the files of top in the order listed
RECURSIVE AddFiles(_, _, _, _)
AddFiles(mods, root, top, nms) ==
    IF nms = <<>> THEN mods
    ELSE LET nm == Head(nms)
             mod_file == top \o <<"/">> \o nm
             mod_name == ModName(root, mod_file)
         IN  AddFiles(IF nm[Len(nm)] = ".py" /\ mod_name \notin DOMAIN mods
                      THEN mods @@ (mod_name :> Module(mod_name, mod_file, top))
                      ELSE mods,
                      root, top, Tail(nms))

\* one iteration of the loop over os.walk(root_dir)
VisitTop(mods, root, top, nms) ==
    IF SkipsTop(top) THEN mods ELSE AddFiles(mods, root, top, nms)


(***************************************************************************)
(* mod_dict_to_dag: the loop body for one module.  The graph's body is     *)
(* kept as two bags: the node statements and the edge statements.          *)
(***************************************************************************)
IsVendor(mods, d) == d \notin DOMAIN mods

\* a slip: the `di not in vendor_mods` test is missing
NewVendorsUnchecked(mods, seen, name) ==
    {d \in DOMAIN mods[name].direct_imports : IsVendor(mods, d)}

\* the vendor names module name adds to vendor_mods
NewVendors(mods, seen, name) ==
    {d \in DOMAIN mods[name].direct_imports : IsVendor(mods, d) /\ d \notin seen}

Edge(name, d, external) ==
    [tail |-> name, head |-> d, color |-> IF external THEN "blue" ELSE "none"]

EdgesOf(mods, name) ==
    {Edge(name, d, IsVendor(mods, d)) : d \in DOMAIN mods[name].direct_imports}

EmptyDag == [nodes |-> EmptyBag, edges |-> EmptyBag]

AddModuleToDag(g, mods, seen, name) ==
    [nodes |-> g.nodes (+) SetToBag(NewVendors(mods, seen, name)),
     edges |-> g.edges (+) SetToBag(EdgesOf(mods, name))]

(***************************************************************************)
(* The inputs: bounds, file trees, sources.                                *)
(***************************************************************************)
MaxFiles == 2       \* files in a project tree
MaxStmts == 2       \* statements in the source resolved step by step
MaxRunStmts == 1    \* statements in a source of a whole run
MaxInstrs == 3      \* instructions in a hand-assembled code object

SeqsUpTo(S, n) == UNION {[1..k -> S] : k \in 0..n}

Py == <<".py">>
ProjectFiles ==
    { <<<<"a">>, <<"__init__">> \o Py>>,
      <<<<"a">>, <<"b">> \o Py>>,
      <<<<"os">>, <<"path">> \o Py>>,
      <<<<"os">> \o Py>>,
      <<<<"main">> \o Py>>,
      <<<<"README">>>> }
ProjectTrees == {t \in SUBSET ProjectFiles : Cardinality(t) <= MaxFiles}

ImportOs == [kind |-> "import", target |-> <<"os">>]
ImportOsPath == [kind |-> "import", target |-> <<"os", ".", "path">>]
ImportV == [kind |-> "import", target |-> <<"v">>]
FromOsImportPath ==
    [kind |-> "from", level |-> 0, target |-> <<"os">>, names |-> <<<<"path">>>>]
FromAImportB ==
    [kind |-> "from", level |-> 0, target |-> <<"a">>, names |-> <<<<"b">>>>]
FromDotImportB ==
    [kind |-> "from", level |-> 1, target |-> <<>>, names |-> <<<<"b">>>>]
Stmts == {ImportOs, ImportOsPath, ImportV, FromOsImportPath, FromAImportB,
          FromDotImportB}
Sources == SeqsUpTo(Stmts, MaxStmts)
RunStmts == {ImportOs, ImportV, FromOsImportPath, FromAImportB}
RunSources == SeqsUpTo(RunStmts, MaxRunStmts)

NoCode == [co_code |-> <<>>, co_names |-> <<>>, co_consts |-> <<>>]

(***************************************************************************)
(* main(), whole-tree mode: discovery, resolution, listing, the graph.     *)
(***************************************************************************)
InitRun ==
    /\ PY_VERSION \in {2, 3}
    /\ root_dir = <<"/", "proj">>
    /\ root_exists \in BOOLEAN
    /\ tree \in IF root_exists THEN ProjectTrees ELSE {{}}
    /\ walk_left = IF root_exists THEN <<<<>>>> ELSE <<>>
    /\ mod_dict = EmptyDict
    /\ pc = "walk"
    /\ todo = <<>>
    /\ compiled = NoCode
    /\ di = 0 /\ extended_arg = 0 /\ triples = <<>>
    /\ opargs = <<>> /\ si = 0 /\ events = <<>>
    /\ fq_deps = EmptyDict
    /\ printed = <<>>
    /\ dag = EmptyDag /\ vendor_mods = {} /\ dag_left = {}

Init == InitRun

scanVars == <<compiled, di, extended_arg, triples, opargs, si, events, fq_deps>>
fsVars == <<PY_VERSION, root_dir, root_exists, tree>>
dagVars == <<printed, dag, vendor_mods, dag_left>>

\* get_modules_in_dir: os.walk yields the next directory
WalkDir ==
    /\ pc = "walk" /\ walk_left # <<>>
    /\ LET d == Head(walk_left) IN
       \E subs \in Orders(SubDirs(tree, d)) :
       \E nms \in Orders({BaseOf(f) : f \in FilesIn(tree, d)}) :
          /\ mod_dict' = VisitTop(mod_dict, root_dir, TopOf(root_dir, d), nms)
          /\ walk_left' = subs \o Tail(walk_left)
    /\ UNCHANGED <<fsVars, pc, todo, scanVars, dagVars>>

\* get_modules_in_dir returns; add_immediate_deps_to_modules sorts the items
WalkDone ==
    /\ pc = "walk" /\ walk_left = <<>>
    /\ pc' = "resolve"
    /\ todo' = Sorted(DOMAIN mod_dict)
    /\ UNCHANGED <<fsVars, walk_left, mod_dict, scanVars, dagVars>>

\* one iteration of add_immediate_deps_to_modules, the source compiling
ResolveModule ==
    /\ pc = "resolve" /\ todo # <<>>
    /\ \E src \in RunSources :
          /\ compiled' = Compile(src)
          /\ mod_dict' = [mod_dict EXCEPT ![Head(todo)].direct_imports =
                             get_fq_immediate_deps(mod_dict, compiled')]
    /\ todo' = Tail(todo)
    /\ UNCHANGED <<fsVars, walk_left, pc, di, extended_arg, triples, opargs,
                   si, events, fq_deps, dagVars>>

\* one iteration of add_immediate_deps_to_modules, open() or compile() raising:
\* nothing catches the exception and main ends with it
ResolveRaises ==
    /\ pc = "resolve" /\ todo # <<>>
    /\ pc' = "crashed"
    /\ UNCHANGED <<fsVars, walk_left, mod_dict, todo, scanVars, dagVars>>

\* the listing printed by main, then mod_dict_to_dag starts
PrintListing ==
    /\ pc = "resolve" /\ todo = <<>>
    /\ printed' = <<"Module dependencies:">> \o
                  [j \in 1..Cardinality(DOMAIN mod_dict) |->
                     LET name == Sorted(DOMAIN mod_dict)[j]
                     IN  [name |-> name,
                          deps |-> DOMAIN mod_dict[name].direct_imports]]
    /\ dag' = EmptyDag /\ vendor_mods' = {} /\ dag_left' = DOMAIN mod_dict
    /\ pc' = "assemble"
    /\ UNCHANGED <<fsVars, walk_left, mod_dict, todo, scanVars>>

\* one iteration of the outer loop of mod_dict_to_dag
AssembleModule ==
    /\ pc = "assemble"
    /\ \E name \in dag_left :
          /\ dag' = AddModuleToDag(dag, mod_dict, vendor_mods, name)
          /\ vendor_mods' = vendor_mods \cup NewVendors(mod_dict, vendor_mods, name)
          /\ dag_left' = dag_left \ {name}
    /\ UNCHANGED <<fsVars, walk_left, mod_dict, pc, todo, scanVars, printed>>

\* mod_dict_to_dag returns and main views the graph
ViewDag ==
    /\ pc = "assemble" /\ dag_left = {}
    /\ pc' = "done"
    /\ UNCHANGED <<fsVars, walk_left, mod_dict, todo, scanVars, dagVars>>

Next ==
    \/ WalkDir \/ WalkDone \/ ResolveModule \/ ResolveRaises
    \/ PrintListing \/ AssembleModule \/ ViewDag

Spec == Init /\ [][Next]_vars


(***************************************************************************)
(* One call of get_fq_immediate_deps, step by step: the first module of    *)
(* the sorted items is opened, compiled and scanned, each event consumed   *)
(* by the loop body as scan_opcodes yields it.                             *)
(***************************************************************************)
\* an event with the index of the opargs entry that yielded it
RECURSIVE Tagged(_, _)
Tagged(k, evs) ==
    IF evs = <<>> THEN <<>>
    ELSE <<[at |-> k, ev |-> Head(evs)]>> \o Tagged(k, Tail(evs))

OpenCompile ==
    /\ pc = "resolve" /\ todo # <<>>
    /\ \E src \in Sources : compiled' = Compile(src)
    /\ opargs' = FilterExtended(_unpack_opargs(compiled'.co_code))
    /\ si' = 0 /\ events' = <<>> /\ fq_deps' = EmptyDict
    /\ pc' = "loop"
    /\ UNCHANGED <<fsVars, walk_left, mod_dict, todo, di, extended_arg, triples,
                   dagVars>>

LoopStep ==
    /\ pc = "loop" /\ si < Len(opargs)
    /\ LET evs == ScanAt(compiled, opargs, si + 1) IN
          /\ events' = events \o Tagged(si + 1, evs)
          /\ fq_deps' = FoldEvents(mod_dict, fq_deps, evs)
    /\ si' = si + 1
    /\ UNCHANGED <<fsVars, walk_left, mod_dict, pc, todo, compiled, di,
                   extended_arg, triples, opargs, dagVars>>

ReturnDeps ==
    /\ pc = "loop" /\ si = Len(opargs)
    /\ mod_dict' = [mod_dict EXCEPT ![Head(todo)].direct_imports = fq_deps]
    /\ todo' = Tail(todo)
    /\ pc' = "returned"
    /\ UNCHANGED <<fsVars, walk_left, scanVars, dagVars>>

NextResolve == WalkDir \/ WalkDone \/ OpenCompile \/ LoopStep \/ ReturnDeps

SpecResolve == InitRun /\ [][NextResolve]_vars

(***************************************************************************)
(* scan_opcodes on hand-assembled code objects, step by step: the          *)
(* generator _unpack_opargs, the filter, the scanning loop.                *)
(***************************************************************************)
SampleNames == (0 :> <<>>) @@ (1 :> <<"a">>)
\* only the entries the instructions refer to are written out
SampleConsts ==
    (0 :> IntC(0)) @@ (1 :> IntC(-1)) @@ (2 :> NoneC)
    @@ (3 :> TupleC(<<<<"sibling">>>>)) @@ (258 :> IntC(1))

RawInstrs ==
    {<<POP_TOP, <<>>>>, <<STORE_NAME, <<1>>>>, <<STORE_GLOBAL, <<1>>>>}
    \cup {<<LOAD_CONST, <<c>>>> : c \in DOMAIN SampleConsts}
    \cup {<<IMPORT_NAME, <<n>>>> : n \in DOMAIN SampleNames}

RECURSIVE Assemble(_)
Assemble(ins) ==
    IF ins = <<>> THEN <<>>
    ELSE EncodeInstr(Head(ins)[1],
                     IF Head(ins)[2] = <<>> THEN 0 ELSE Head(ins)[2][1])
         \o Assemble(Tail(ins))

InitScan ==
    /\ PY_VERSION \in {2, 3}
    /\ root_dir = <<"/", "proj">>
    /\ root_exists = TRUE
    /\ tree = {}
    /\ walk_left = <<>>
    /\ mod_dict = EmptyDict
    /\ pc = "unpack"
    /\ todo = <<>>
    /\ \E ins \in SeqsUpTo(RawInstrs, MaxInstrs) :
          compiled = [co_code |-> Assemble(ins), co_names |-> SampleNames,
                      co_consts |-> SampleConsts]
    /\ di = 0 /\ extended_arg = 0 /\ triples = <<>>
    /\ opargs = <<>> /\ si = 0 /\ events = <<>>
    /\ fq_deps = EmptyDict
    /\ printed = <<>>
    /\ dag = EmptyDag /\ vendor_mods = {} /\ dag_left = {}

restVars == <<fsVars, walk_left, mod_dict, todo, fq_deps, dagVars>>

\* _unpack_opargs yields the next triple
UnpackStep ==
    /\ pc = "unpack" /\ di < Len(compiled.co_code)
    /\ LET r == UnpackNext(compiled.co_code, di, extended_arg) IN
          /\ triples' = Append(triples, r.triple)
          /\ di' = r.i
          /\ extended_arg' = r.extended_arg
    /\ UNCHANGED <<restVars, pc, compiled, opargs, si, events>>

\* _unpack_opargs is exhausted: the list comprehension gives opargs
FilterStep ==
    /\ pc = "unpack" /\ di >= Len(compiled.co_code)
    /\ opargs' = FilterExtended(triples)
    /\ pc' = "scan"
    /\ UNCHANGED <<restVars, compiled, di, extended_arg, triples, si, events>>

\* one iteration of the scanning loop
ScanStep ==
    /\ pc = "scan" /\ si < Len(opargs)
    /\ events' = events \o Tagged(si + 1, ScanAt(compiled, opargs, si + 1))
    /\ si' = si + 1
    /\ UNCHANGED <<restVars, pc, compiled, di, extended_arg, triples, opargs>>

\* the scanning loop ends
ScanEnd ==
    /\ pc = "scan" /\ si = Len(opargs)
    /\ pc' = "scanned"
    /\ UNCHANGED <<restVars, compiled, di, extended_arg, triples, opargs, si,
                   events>>

NextScan == UnpackStep \/ FilterStep \/ ScanStep \/ ScanEnd

SpecScan == InitScan /\ [][NextScan]_vars

(***************************************************************************)
(* get_modules_in_dir on trees with package markers, a virtual             *)
(* environment and a root below a directory named venv.                    *)
(***************************************************************************)
DiscoverFiles ==
    { <<<<"a">> \o Py>>,
      <<<<"pkg">>, <<"__init__">> \o Py>>,
      <<<<"pkg">>, <<"m">> \o Py>>,
      <<<<"pkg">>, <<"__init__">>, <<"m">> \o Py>>,
      <<<<"venv">>, <<"m">> \o Py>>,
      <<<<"README">>>> }
DiscoverRoots == {<<"/", "proj">>, <<"/", "venv", "/", "proj">>}

InitDiscover ==
    /\ PY_VERSION = 3
    /\ root_dir \in DiscoverRoots
    /\ root_exists \in BOOLEAN
    /\ tree \in IF root_exists THEN SUBSET DiscoverFiles ELSE {{}}
    /\ walk_left = IF root_exists THEN <<<<>>>> ELSE <<>>
    /\ mod_dict = EmptyDict
    /\ pc = "walk"
    /\ todo = <<>>
    /\ compiled = NoCode
    /\ di = 0 /\ extended_arg = 0 /\ triples = <<>>
    /\ opargs = <<>> /\ si = 0 /\ events = <<>>
    /\ fq_deps = EmptyDict
    /\ printed = <<>>
    /\ dag = EmptyDag /\ vendor_mods = {} /\ dag_left = {}

NextDiscover == WalkDir \/ WalkDone

SpecDiscover == InitDiscover /\ [][NextDiscover]_vars


(***************************************************************************)
(* Properties of the resolver (SpecResolve).                               *)
(***************************************************************************)
\* the module whose resolution SpecResolve follows, and its result
Resolved == Sorted(DOMAIN mod_dict)[1]
DirectImports == mod_dict[Resolved].direct_imports

IsAbs(e) == e.ev.op = ABS_IMPORT
FromlistOf(e) == e.ev.args[1]
TargetOf(e) == e.ev.args[2]

\* the target is an ordinary standard-library import: its top-level segment
\* is standard-library and it is not a project module
OutOfScope(T) == SplitHead(T) \in StdLibNames /\ T \notin DOMAIN mod_dict

RECURSIVE MemberCount(_, _)
MemberCount(d, keys) ==
    IF keys = {} THEN 0
    ELSE LET k == CHOOSE x \in keys : TRUE
         IN  Len(d[k]) + MemberCount(d, keys \ {k})

\* what the events yielded so far may have added: nothing for an out-of-scope
\* target, else one entry per imported name (one for a bare import)
RECURSIVE Contributions(_)
Contributions(evs) ==
    IF evs = <<>> THEN 0
    ELSE (IF IsAbs(Head(evs)) /\ ~OutOfScope(TargetOf(Head(evs)))
          THEN IF FromlistOf(Head(evs)) = <<>> THEN 1
               ELSE Len(FromlistOf(Head(evs)))
          ELSE 0)
         + Contributions(Tail(evs))

\* C1: the dependencies of a module never have a key whose top-level segment
\* is standard-library unless the key is a project module, and an absolute
\* import of such a target adds nothing, whatever its fromlist.
C1_NoStdLibEdge ==
    /\ \A T \in DOMAIN fq_deps : ~OutOfScope(T)
    /\ \A m \in DOMAIN mod_dict :
          \A T \in DOMAIN mod_dict[m].direct_imports : ~OutOfScope(T)
    /\ pc \in {"loop", "returned"} =>
          MemberCount(fq_deps, DOMAIN fq_deps) = Contributions(events)

C1_Witness ==
    /\ pc = "returned"
    /\ \E j \in 1..Len(events) :
          /\ IsAbs(events[j]) /\ OutOfScope(TargetOf(events[j]))
          /\ FromlistOf(events[j]) # <<>>
    /\ \E j \in 1..Len(events) :
          IsAbs(events[j]) /\ ~OutOfScope(TargetOf(events[j]))
    /\ DirectImports # EmptyDict

\* the events `from T import n` with T.n a project module
SubmoduleImports ==
    {j \in 1..Len(events) :
        /\ IsAbs(events[j]) /\ Len(FromlistOf(events[j])) = 1
        /\ (TargetOf(events[j]) \o <<".">> \o FromlistOf(events[j])[1])
              \in DOMAIN mod_dict}

Members(d, k) == {d[k][j] : j \in 1..Len(d[k])}

SubmoduleEdge(j) ==
    LET T == TargetOf(events[j])
        n == FromlistOf(events[j])[1]
    IN  /\ (T \o <<".">> \o n) \in DOMAIN DirectImports
        /\ T \in DOMAIN DirectImports => n \notin Members(DirectImports, T)

\* C2 as stated: `from T import n` with T.n a project module gives the edge
\* to T.n and no member n under T, for every T, standard-library or not.
C2_SubmoduleEdgeAnyTarget ==
    pc = "returned" => \A j \in SubmoduleImports : SubmoduleEdge(j)

\* C2 amended: the same, for the targets that are not out of scope (the
\* top-level segment is not standard-library, or T is a project module).
C2_SubmoduleEdge ==
    pc = "returned" =>
        \A j \in SubmoduleImports :
            ~OutOfScope(TargetOf(events[j])) => SubmoduleEdge(j)

C2_Witness ==
    /\ pc = "returned"
    /\ \E j \in SubmoduleImports :
          /\ SplitHead(TargetOf(events[j])) \in StdLibNames
          /\ TargetOf(events[j]) \in DOMAIN mod_dict
          /\ SubmoduleEdge(j)

\* the events `import T`
BareImports ==
    {j \in 1..Len(events) : IsAbs(events[j]) /\ FromlistOf(events[j]) = <<>>}

BareEdge(j) ==
    /\ TargetOf(events[j]) \in DOMAIN DirectImports
    /\ EmptyList \in Members(DirectImports, TargetOf(events[j]))

\* C3 as stated: `import T` gives the edge to T with the empty member list,
\* whether or not T is a project module.
C3_BareImportEdgeAnyTarget ==
    pc = "returned" => \A j \in BareImports : BareEdge(j)

\* C3 amended: the same, for the targets that are not out of scope.
C3_BareImportEdge ==
    pc = "returned" =>
        \A j \in BareImports : ~OutOfScope(TargetOf(events[j])) => BareEdge(j)

C3_Witness ==
    /\ pc = "returned"
    /\ \E j \in BareImports :
          /\ TargetOf(events[j]) \notin DOMAIN mod_dict
          /\ BareEdge(j)
    /\ \E j \in BareImports :
          /\ SplitHead(TargetOf(events[j])) \in StdLibNames
          /\ BareEdge(j)


(***************************************************************************)
(* Properties of the scanner and the decoder (SpecScan).                   *)
(***************************************************************************)
\* the events yielded at opargs entry k, in order
RECURSIVE EventsAt(_, _)
EventsAt(evs, k) ==
    IF evs = <<>> THEN <<>>
    ELSE (IF Head(evs).at = k THEN <<Head(evs).ev>> ELSE <<>>)
         \o EventsAt(Tail(evs), k)

TwoConstLoadsBefore(k) ==
    k >= 3 /\ opargs[k - 1][1] = LOAD_CONST /\ opargs[k - 2][1] = LOAD_CONST

\* the fromlist a constant stands for: None is the empty fromlist
FromlistMatches(c, fromlist) ==
    /\ c.t = "tuple" => fromlist = c.v
    /\ c.t = "none" => fromlist = <<>>

ImportEventOk(k, evs) ==
    LET level == compiled.co_consts[opargs[k - 2][2][1]]
        listc == compiled.co_consts[opargs[k - 1][2][1]]
        name == compiled.co_names[opargs[k][2][1]]
    IN  /\ Len(evs) = 1
        /\ level \in {IntC(0), IntC(-1)} =>
              /\ evs[1].op = ABS_IMPORT /\ Len(evs[1].args) = 2
              /\ FromlistMatches(listc, evs[1].args[1])
              /\ evs[1].args[2] = name
        /\ (level.t = "int" /\ level.v > 0) =>
              /\ evs[1].op = REL_IMPORT /\ Len(evs[1].args) = 3
              /\ evs[1].args[1] = level
              /\ FromlistMatches(listc, evs[1].args[2])
              /\ evs[1].args[3] = name

\* C6: the scanner's events follow the instruction order; an import preceded
\* by two constant-loads yields AbsoluteImport for level 0 or -1 and
\* RelativeImport for a positive level; any other import yields nothing; the
\* two store instructions yield Store(name); nothing else yields an event.
C6_ScannerEvents ==
    /\ \A j \in 1..Len(events) : events[j].at \in 1..si
    /\ \A j \in 1..(Len(events) - 1) : events[j].at < events[j + 1].at
    /\ \A k \in 1..si :
          LET op == opargs[k][1]
              evs == EventsAt(events, k)
          IN  IF op \in {STORE_NAME, STORE_GLOBAL}
              THEN evs = <<[op |-> STORE,
                            args |-> <<compiled.co_names[opargs[k][2][1]]>>]>>
              ELSE IF op = IMPORT_NAME /\ TwoConstLoadsBefore(k)
              THEN ImportEventOk(k, evs)
              ELSE evs = <<>>

\* `from . import sibling`, its level loaded through an extended argument
C6_Witness ==
    /\ pc = "scanned" /\ PY_VERSION = 3
    /\ \E j \in 1..Len(triples) : triples[j][2] = EXTENDED_ARG
    /\ \E j \in 1..Len(events) :
          /\ events[j].ev.op = REL_IMPORT
          /\ events[j].ev.args[1] = IntC(1)
          /\ events[j].ev.args[3] = <<>>
          /\ compiled.co_consts[opargs[events[j].at - 1][2][1]].t = "tuple"
          /\ events[j].ev.args[2] = <<<<"sibling">>>>

IsNotExtended(t) == t[2] # EXTENDED_ARG

\* the decoder as C7 describes it
RECURSIVE RefDecode(_, _, _)
RefDecode(code, i, acc) ==
    IF i >= Len(code) THEN <<>>
    ELSE LET op == code[i + 1]
             width == IF PY_VERSION = 3 THEN 2
                      ELSE IF op >= HAVE_ARGUMENT THEN 3 ELSE 1
             own == IF PY_VERSION = 3 THEN code[i + 2]
                    ELSE code[i + 2] + 256 * code[i + 3]
             arg == BitOr(own, acc)
         IN  IF op = EXTENDED_ARG THEN RefDecode(code, i + width, arg * 256)
             ELSE <<<<i, op, IF op >= HAVE_ARGUMENT THEN <<arg>> ELSE <<>>>>>>
                  \o RefDecode(code, i + width, 0)

\* C7: in both encodings, each instruction other than an extended argument
\* is decoded to (its offset, its code, its argument): none below
\* HAVE_ARGUMENT, else its own argument (one byte in the modern encoding, two
\* bytes in the legacy one) or'd with the extended arguments before it.
C7_DecodedTriples ==
    pc \in {"scan", "scanned"} =>
        SelectSeq(triples, IsNotExtended) = RefDecode(compiled.co_code, 0, 0)

\* the same for the modern encoding alone
C7_ModernOnly == PY_VERSION = 3 => C7_DecodedTriples


(***************************************************************************)
(* Properties of discovery (SpecDiscover).                                 *)
(***************************************************************************)
IsSource(f) == BaseOf(f)[Len(BaseOf(f))] = ".py"

\* the file lies in a subdirectory of the root whose name holds venv or virt
InSkippedSubdir(f) ==
    \E j \in 1..(Len(f) - 1) : Contains(f[j], "venv") \/ Contains(f[j], "virt")

\* the root-relative path with the suffix stripped, a trailing __init__
\* collapsed into its parent, and dots for separators
CanonicalName(f) ==
    LET base == SubSeq(BaseOf(f), 1, Len(BaseOf(f)) - 1)
        parts == IF base = <<"__init__">> THEN DirOf(f)
                 ELSE Append(DirOf(f), base)
    IN  Join(".", parts)

Eligible == {f \in tree : root_exists /\ IsSource(f) /\ ~InSkippedSubdir(f)}

\* C8: discovery returns exactly the canonical names of the source files
\* outside skipped venv/virt subdirectories, each mapped to a file of that
\* name.
C8_DiscoveredNames ==
    pc = "resolve" =>
        /\ DOMAIN mod_dict = {CanonicalName(f) : f \in Eligible}
        /\ \A n \in DOMAIN mod_dict :
              \E f \in Eligible :
                 /\ CanonicalName(f) = n
                 /\ mod_dict[n].file = root_dir \o <<"/">> \o Join("/", f)

(***************************************************************************)
(* Properties of a whole run (Spec).                                       *)
(***************************************************************************)
\* C4: a module whose source cannot be read or compiled never stops the run.
C4_FailureIsContained == pc # "crashed"

Visited == DOMAIN mod_dict \ dag_left

ImportPairs ==
    UNION {{<<m, d>> : d \in DOMAIN mod_dict[m].direct_imports} : m \in Visited}

\* C5: the graph holds exactly one edge (m, d) per module m and key d of its
\* dependencies, marked external exactly when d is not a project module, and
\* exactly one node per external d, in whatever order modules are visited.
C5_DagEdges ==
    pc \in {"assemble", "done"} =>
        /\ dag.edges =
              SetToBag({[tail |-> p[1], head |-> p[2],
                         color |-> IF p[2] \in DOMAIN mod_dict THEN "none"
                                   ELSE "blue"] : p \in ImportPairs})
        /\ dag.nodes =
              SetToBag({p[2] : p \in {q \in ImportPairs : q[2] \notin DOMAIN mod_dict}})

C5_Witness ==
    /\ pc = "done"
    /\ \E p, q \in ImportPairs :
          /\ p[1] # q[1] /\ p[2] = q[2] /\ p[2] \notin DOMAIN mod_dict
          /\ CopiesIn(p[2], dag.nodes) = 1
          /\ BagCardinality(dag.edges) >= 2

NoSources == ~root_exists \/ ~(\E f \in tree : IsSource(f))

\* C9: with a missing root or no source file the run ends before resolution,
\* the listing and the graph.
C9_DiscoveryFailureIsFatal ==
    NoSources => (pc \notin {"assemble", "done"} /\ printed = <<>>)

\* the project module set with no module resolved yet
Fresh(mods) ==
    [n \in DOMAIN mods |-> [mods[n] EXCEPT !.direct_imports = EmptyDict]]

ResolvesHead ==
    pc = "resolve" /\ todo # <<>> /\ pc' = "resolve" /\ todo' = Tail(todo)

\* C10: resolving a module gives the dependencies computed from its own code
\* and the key set alone, whatever the other modules hold by then, and
\* changes neither the key set nor any other module.
C10_ResolveIsIndependent ==
    [][ResolvesHead =>
          /\ DOMAIN mod_dict' = DOMAIN mod_dict
          /\ \A n \in DOMAIN mod_dict \ {Head(todo)} : mod_dict'[n] = mod_dict[n]
          /\ mod_dict'[Head(todo)].direct_imports =
                get_fq_immediate_deps(Fresh(mod_dict), compiled')]_vars

\* the second module is resolved after the first recorded its imports, and
\* its own imports name a project module
C10_Witness ==
    /\ pc = "resolve" /\ todo = <<>>
    /\ Cardinality(DOMAIN mod_dict) = 2
    /\ \A n \in DOMAIN mod_dict : DOMAIN mod_dict[n].direct_imports # {}
    /\ \E d \in DOMAIN mod_dict[Sorted(DOMAIN mod_dict)[2]].direct_imports :
          d \in DOMAIN mod_dict


====
